---------------------------- MODULE Spec2Model ----------------------------
(***************************************************************************)
(* A model of the todo manager of src/main.rs.                             *)
(*                                                                         *)
(* One step of the model is one run of the executable (fn main): the       *)
(* process hydrates a TodoList from todos.json (TodoList::new), applies    *)
(* exactly one command of the Cli enum, saves through TodoList::save when  *)
(* the command mutated the list, prints, and exits.  Between two runs the  *)
(* only state that survives is the file; the variables other than `file`   *)
(* and `now` record what the last run held in memory and reported.         *)
(***************************************************************************)
EXTENDS Integers, Sequences, FiniteSets, TLC

VARIABLES
    file,      \* todos.json on disk
    todos,     \* self.todos of the last run, as it was when the run ended
    now,       \* the reading of Local::now()
    cmd,       \* the Cli value of the last run
    outcome,   \* what the last run reported
    saved,     \* whether the last run called TodoList::save
    shown,     \* the items the last run passed to display_todo, in order
    exit,      \* the exit code of the last run (0: main returned Ok)
    deleted,   \* history, kept by SpecHist alone: the id of one run that
               \* printed "Deleted" (any one of them), as a set
    procs      \* kept by SpecRace alone: the runs in flight, one record for
               \* each of two processes that share the working directory

vars == <<file, todos, now, cmd, outcome, saved, shown, exit, deleted, procs>>

---------------------------------------------------------------------------
(* Bounds of the model.                                                    *)

\* The longest list a run may still grow with add.
MaxItems == 2
\* The last reading of the clock.
MaxClock == 1

---------------------------------------------------------------------------
(* Option<T>, strings, and the inputs the commands are drawn from.         *)

None == <<>>
Some(x) == <<x>>
IsSome(o) == o # <<>>

\* A String whose characters matter (a title, a search query) is a sequence
\* of one-character strings.
ToLowerChar(c) ==
    CASE c = "A" -> "a"
      [] c = "B" -> "b"
      [] OTHER -> c

to_lowercase(s) == [i \in 1..Len(s) |-> ToLowerChar(s[i])]

\* str::contains: needle occurs in hay as a contiguous substring.
contains(hay, needle) ==
    \E k \in 0..(Len(hay) - Len(needle)) :
        \A i \in 1..Len(needle) : hay[k + i] = needle[i]

\* The arguments of `todo add`: title, --priority, --due, --tag*.
InputPlain ==
    [title |-> <<"a">>, priority |-> None, due |-> None, tags |-> <<>>]

InputFull ==
    [title |-> <<"A", "b">>, priority |-> Some("high"),
     due |-> Some("2024-02-01"), tags |-> <<"work", "oss">>]

AddInputs == {InputPlain, InputFull}

\* The spellings of --priority a user may type, and its absence.
PrioritySpellings ==
    { None, Some("high"), Some("High"), Some("HIGH"), Some("medium"),
      Some("Medium"), Some("low"), Some("urgent") }

\* The arguments of `todo add` with every spelling of --priority, and with an
\* empty and a non-empty title.
ArgInputs ==
    [ title : { <<>>, <<"a">> }, priority : PrioritySpellings,
      due : { None }, tags : { <<>> } ]

\* The arguments of `todo list`: --completed, --priority, --tag.
ListInputs ==
    { [completed |-> FALSE, priority |-> None, tag |-> None],
      [completed |-> TRUE, priority |-> Some("high"), tag |-> Some("work")] }

\* The argument of `todo search`.
Queries == { <<>>, <<"A">> }

\* A third item for the stores the queries are tried on: medium priority,
\* one tag, a title without the letter a.
InputMid ==
    [title |-> <<"b", "c">>, priority |-> Some("medium"), due |-> None,
     tags |-> <<"work">>]

\* The arguments of `todo list`, every combination of the three filters.
FilterInputs ==
    [ completed : BOOLEAN,
      priority : { None, Some("high"), Some("High"), Some("medium"),
                   Some("low"), Some("urgent") },
      tag : { None, Some("work"), Some("oss"), Some("home") } ]

\* The arguments of `todo search`, in both cases and longer than one letter.
QueryInputs ==
    { <<>>, <<"a">>, <<"A">>, <<"B">>, <<"a", "B">>, <<"b", "a">>, <<"c">> }

\* The id argument of `todo complete` and `todo delete`.
Ids == 1..(MaxItems + 1)

\* How a call of fs::write ends: it succeeds, it fails before the file is
\* opened (the file keeps its content), or it fails after the file was
\* truncated (the file holds a partial document).
WriteResults == {"ok", "create_err", "write_err"}

---------------------------------------------------------------------------
(* Todo and its JSON form.                                                 *)

\* NaiveDateTime::parse_from_str(date_str + " 23:59:59", "%Y-%m-%d %H:%M:%S")
ValidDates == {"2024-02-01"}

ParseDue(due_date_str) ==
    IF IsSome(due_date_str) /\ due_date_str[1] \in ValidDates
    THEN Some([date |-> due_date_str[1], time |-> "23:59:59"])
    ELSE None

ParsePriority(priority_str) ==
    IF priority_str = Some("high") THEN "High"
    ELSE IF priority_str = Some("medium") THEN "Medium"
    ELSE "Low"

Todo_new(inp, clock) ==
    [ id           |-> 0,
      title        |-> inp.title,
      completed    |-> FALSE,
      created_at   |-> clock,
      completed_at |-> None,
      priority     |-> ParsePriority(inp.priority),
      due_date     |-> ParseDue(inp.due),
      categories   |-> inp.tags ]

\* JSON values, as serde_json writes and reads them.
JNull == [type |-> "null"]
JBool(b) == [type |-> "bool", b |-> b]
JNum(n) == [type |-> "number", n |-> n]
JStr(s) == [type |-> "string", s |-> s]
JArr(a) == [type |-> "array", a |-> a]

JOpt(o) == IF IsSome(o) THEN JStr(o[1]) ELSE JNull

\* SerializeTodo as it would be with #[serde(rename_all = "lowercase")] on
\* Priority's Serialize alone: the variant's name is written in lower case.
SerializeTodoLower(t) ==
    [ id           |-> JNum(t.id),
      title        |-> JStr(t.title),
      completed    |-> JBool(t.completed),
      created_at   |-> JStr(t.created_at),
      completed_at |-> JOpt(t.completed_at),
      priority     |-> JStr(IF t.priority = "High" THEN "high"
                            ELSE IF t.priority = "Medium" THEN "medium"
                            ELSE "low"),
      due_date     |-> JOpt(t.due_date),
      categories   |-> JArr([i \in 1..Len(t.categories) |-> JStr(t.categories[i])]) ]

\* #[derive(Serialize)] for Todo: every field is written, an absent option as
\* null, the priority as its variant's name.
SerializeTodo(t) ==
    [ id           |-> JNum(t.id),
      title        |-> JStr(t.title),
      completed    |-> JBool(t.completed),
      created_at   |-> JStr(t.created_at),
      completed_at |-> JOpt(t.completed_at),
      priority     |-> JStr(t.priority),
      due_date     |-> JOpt(t.due_date),
      categories   |-> JArr([i \in 1..Len(t.categories) |-> JStr(t.categories[i])]) ]

FromJOpt(j) == IF j.type = "null" THEN None ELSE Some(j.s)

\* A field of the struct that is an Option may be left out of the object or
\* be null; every other field must be there.
OptField(j, name) == IF name \in DOMAIN j THEN j[name] ELSE JNull

\* #[derive(Deserialize)] for Todo accepts an object that has the fields of
\* the struct, each with the type of the struct's field.
Deserializable(j) ==
    /\ {"id", "title", "completed", "created_at", "priority", "categories"}
            \subseteq DOMAIN j
    /\ j.id.type = "number"
    /\ j.title.type = "string"
    /\ j.completed.type = "bool"
    /\ j.created_at.type = "string"
    /\ OptField(j, "completed_at").type \in {"null", "string"}
    /\ j.priority.type = "string" /\ j.priority.s \in {"High", "Medium", "Low"}
    /\ OptField(j, "due_date").type \in {"null", "string"}
    /\ j.categories.type = "array"
    /\ \A i \in 1..Len(j.categories.a) : j.categories.a[i].type = "string"

DeserializeTodo(j) ==
    [ id           |-> j.id.n,
      title        |-> j.title.s,
      completed    |-> j.completed.b,
      created_at   |-> j.created_at.s,
      completed_at |-> FromJOpt(OptField(j, "completed_at")),
      priority     |-> j.priority.s,
      due_date     |-> FromJOpt(OptField(j, "due_date")),
      categories   |-> [i \in 1..Len(j.categories.a) |-> j.categories.a[i].s] ]

---------------------------------------------------------------------------
(* The file and TodoList::new / TodoList::save.                            *)

\* The content of a file that is no JSON array of Todo records.
NotJson == [json |-> FALSE, arr |-> <<>>]

\* todos.json: absent; present but not readable as a String (fs::read_to_string
\* fails: no permission, bytes that are not UTF-8); or present with a text.
Absent == [state |-> "absent", text |-> NotJson]
Unreadable == [state |-> "unreadable", text |-> NotJson]
Garbage == [state |-> "text", text |-> NotJson]
\* A document written by an earlier version of the program: its one record
\* has no priority, due_date or categories.
Legacy ==
    [state |-> "text",
     text |-> [json |-> TRUE,
               arr |-> << [ id           |-> JNum(1),
                            title        |-> JStr(<<"a">>),
                            completed    |-> JBool(FALSE),
                            created_at   |-> JStr(0),
                            completed_at |-> JNull ] >>]]

\* serde_json::to_string_pretty(&self.todos)
to_string_pretty(ts) ==
    [json |-> TRUE, arr |-> [i \in 1..Len(ts) |-> SerializeTodo(ts[i])]]

\* serde_json::from_str::<Vec<Todo>>(&content).unwrap_or_default()
from_str_or_default(text) ==
    IF text.json /\ \A i \in 1..Len(text.arr) : Deserializable(text.arr[i])
    THEN [i \in 1..Len(text.arr) |-> DeserializeTodo(text.arr[i])]
    ELSE <<>>

\* TodoList_new as it would be with serde_json::from_str(&content)? in place
\* of unwrap_or_default(): a text that is no document ends the run.
TodoList_newStrict(f) ==
    IF f.state = "absent" THEN [ok |-> TRUE, todos |-> <<>>]
    ELSE IF f.state = "unreadable" THEN [ok |-> FALSE, todos |-> <<>>]
    ELSE [ok |-> f.text.json /\ \A i \in 1..Len(f.text.arr) :
                                    Deserializable(f.text.arr[i]),
          todos |-> from_str_or_default(f.text)]

\* TodoList::new: ok is FALSE when the ? on fs::read_to_string returns early.
TodoList_new(f) ==
    IF f.state = "absent" THEN [ok |-> TRUE, todos |-> <<>>]
    ELSE IF f.state = "unreadable" THEN [ok |-> FALSE, todos |-> <<>>]
    ELSE [ok |-> TRUE, todos |-> from_str_or_default(f.text)]

\* todos.json after File::create inside fs::write: it exists and has no
\* content yet.
Truncated == [state |-> "empty", text |-> NotJson]

\* File::create without truncation (OpenOptions write + create only): the
\* file keeps its content.
createKeep(f) == f

\* File::create, the first half of fs::write.
create(f) == Truncated

\* write_all, the second half of fs::write, by a process whose handle is at
\* offset 0: the texts the file may hold afterwards.  On the empty file it is
\* the document.  On a file another process has written since this one
\* truncated it, the bytes of the document replace the first bytes of that
\* content: the document alone when that content is not longer, the document
\* followed by the rest of that content (no JSON) when it is longer.  More
\* items make a longer text; with as many items either may be the longer.
write_all(f, doc) ==
    LET whole == [state |-> "text", text |-> doc] IN
    IF f.state = "empty" \/ f = whole THEN { whole }
    ELSE IF f.text.json /\ Len(f.text.arr) < Len(doc.arr) THEN { whole }
    ELSE IF f.text.json /\ Len(f.text.arr) > Len(doc.arr) THEN { Garbage }
    ELSE { whole, Garbage }

\* TodoList::save: the file after fs::write(&self.file_path, content).
save(ts, f, w) ==
    IF w = "ok" THEN [state |-> "text", text |-> to_string_pretty(ts)]
    ELSE IF w = "create_err" THEN f
    ELSE Garbage

---------------------------------------------------------------------------
(* The operations of TodoList, as functions of the loaded list.            *)

\* add with the id taken after the push counted from zero: len() in place of
\* len() + 1.
addIdFromZero(ts, inp, clock) ==
    Append(ts, [Todo_new(inp, clock) EXCEPT !.id = Len(ts)])

\* TodoList::add, up to the call of save.
add(ts, inp, clock) ==
    Append(ts, [Todo_new(inp, clock) EXCEPT !.id = Len(ts) + 1])

\* The priority name TodoList::list compares the filter with.
PriorityName(p) ==
    IF p = "High" THEN "high" ELSE IF p = "Medium" THEN "medium" ELSE "low"

\* The test of list with the two optional filters joined by `or`: an item
\* passes when either filter accepts it.
ListMatchesEither(t, f) ==
    /\ f.completed = t.completed
    /\ \/ ~IsSome(f.priority) /\ ~IsSome(f.tag)
       \/ IsSome(f.priority) /\ f.priority[1] = PriorityName(t.priority)
       \/ IsSome(f.tag) /\ \E i \in 1..Len(t.categories) : t.categories[i] = f.tag[1]

\* The test TodoList::list applies to one item.
ListMatches(t, f) ==
    /\ f.completed = t.completed
    /\ (IsSome(f.priority) => f.priority[1] = PriorityName(t.priority))
    /\ (IsSome(f.tag) => \E i \in 1..Len(t.categories) : t.categories[i] = f.tag[1])

\* The test of search with to_lowercase applied to the title alone.
SearchMatchesRawQuery(t, query) ==
    contains(to_lowercase(t.title), query)

\* The test TodoList::search applies to one item.
SearchMatches(t, query) ==
    contains(to_lowercase(t.title), to_lowercase(query))

RECURSIVE list(_, _)
\* TodoList::list: the items display_todo is called with, in the order of the
\* for loop.
list(ts, f) ==
    IF ts = <<>> THEN <<>>
    ELSE (IF ListMatches(Head(ts), f) THEN <<Head(ts)>> ELSE <<>>)
            \o list(Tail(ts), f)

RECURSIVE search(_, _)
\* TodoList::search: the items display_todo is called with, in the order of
\* the for loop.
search(ts, query) ==
    IF ts = <<>> THEN <<>>
    ELSE (IF SearchMatches(Head(ts), query) THEN <<Head(ts)>> ELSE <<>>)
            \o search(Tail(ts), query)

\* position with rposition: the last item that carries the id.
positionLast(ts, id) ==
    IF \E i \in 1..Len(ts) : ts[i].id = id
    THEN CHOOSE i \in 1..Len(ts) :
            /\ ts[i].id = id
            /\ \A j \in (i + 1)..Len(ts) : ts[j].id # id
    ELSE 0

\* iter().position(|t| t.id == id), iter_mut().find(|t| t.id == id): the
\* index of the first item with that id, 0 when there is none.
position(ts, id) ==
    IF \E i \in 1..Len(ts) : ts[i].id = id
    THEN CHOOSE i \in 1..Len(ts) :
            /\ ts[i].id = id
            /\ \A j \in 1..(i - 1) : ts[j].id # id
    ELSE 0

\* MarkCompleted that stamps created_at as well.
MarkCompletedTouch(t, clock) ==
    [t EXCEPT !.completed = TRUE, !.completed_at = Some(clock),
              !.created_at = clock]

\* MarkCompleted that stamps completed_at with the first reading of the
\* clock, not with Local::now().
MarkCompletedEpoch(t, clock) ==
    [t EXCEPT !.completed = TRUE, !.completed_at = Some(0)]

\* MarkCompleted without the assignment to completed_at.
MarkCompletedNoStamp(t, clock) ==
    [t EXCEPT !.completed = TRUE]

\* What complete does to the item it found.
MarkCompleted(t, clock) ==
    [t EXCEPT !.completed = TRUE, !.completed_at = Some(clock)]

\* complete as a toggle: a completed item is set back to pending.
completeToggle(ts, id, clock) ==
    LET i == position(ts, id) IN
    IF i = 0 THEN [outcome |-> "NotFound", todos |-> ts, save |-> FALSE]
    ELSE IF ts[i].completed
    THEN [outcome |-> "Completed",
          todos |-> [ts EXCEPT ![i] = [ts[i] EXCEPT !.completed = FALSE,
                                                    !.completed_at = None]],
          save |-> TRUE]
    ELSE [outcome |-> "Completed",
          todos |-> [ts EXCEPT ![i] = MarkCompleted(ts[i], clock)],
          save |-> TRUE]

\* complete without the early return for a completed item: the item is
\* stamped again and the list is saved.
completeRestamp(ts, id, clock) ==
    LET i == position(ts, id) IN
    IF i = 0 THEN [outcome |-> "NotFound", todos |-> ts, save |-> FALSE]
    ELSE [outcome |-> IF ts[i].completed THEN "AlreadyCompleted" ELSE "Completed",
          todos |-> [ts EXCEPT ![i] = MarkCompleted(ts[i], clock)],
          save |-> TRUE]

\* TodoList::complete, up to the call of save.
complete(ts, id, clock) ==
    LET i == position(ts, id) IN
    IF i = 0 THEN [outcome |-> "NotFound", todos |-> ts, save |-> FALSE]
    ELSE IF ts[i].completed
    THEN [outcome |-> "AlreadyCompleted", todos |-> ts, save |-> FALSE]
    ELSE [outcome |-> "Completed",
          todos |-> [ts EXCEPT ![i] = MarkCompleted(ts[i], clock)],
          save |-> TRUE]

\* Vec::swap_remove(index): the last item takes the place of the removed one.
swap_remove(ts, index) ==
    [k \in 1..(Len(ts) - 1) |-> IF k = index THEN ts[Len(ts)] ELSE ts[k]]

\* Vec::remove(index)
remove(ts, index) ==
    [k \in 1..(Len(ts) - 1) |-> IF k < index THEN ts[k] ELSE ts[k + 1]]

\* delete without the early return of the None arm: the list is saved also
\* when no item was found.
deleteAlwaysSave(ts, id) ==
    LET i == position(ts, id) IN
    IF i = 0 THEN [outcome |-> "NotFound", todos |-> ts, save |-> TRUE]
    ELSE [outcome |-> "Deleted", todos |-> remove(ts, i), save |-> TRUE]

\* delete with self.todos.pop() in place of self.todos.remove(index): the
\* last item is removed, whichever item was found.
deletePop(ts, id) ==
    LET i == position(ts, id) IN
    IF i = 0 THEN [outcome |-> "NotFound", todos |-> ts, save |-> FALSE]
    ELSE [outcome |-> "Deleted", todos |-> SubSeq(ts, 1, Len(ts) - 1), save |-> TRUE]

\* TodoList::delete, up to the call of save.
delete(ts, id) ==
    LET i == position(ts, id) IN
    IF i = 0 THEN [outcome |-> "NotFound", todos |-> ts, save |-> FALSE]
    ELSE [outcome |-> "Deleted", todos |-> remove(ts, i), save |-> TRUE]

---------------------------------------------------------------------------
(* One run of main.                                                        *)

\* The run ends at `let mut todo_list = TodoList::new()?`.
LoadFails(c) ==
    /\ ~TodoList_new(file).ok
    /\ cmd' = c
    /\ todos' = <<>>
    /\ outcome' = "ReadError"
    /\ saved' = FALSE
    /\ shown' = <<>>
    /\ exit' = 1
    /\ UNCHANGED <<file, now, deleted, procs>>

\* A run whose command ends in self.save()?: the result of the operation is
\* in memory, fs::write ends as w says.
RunSaving(c, ts, report, w) ==
    /\ cmd' = c
    /\ todos' = ts
    /\ saved' = TRUE
    /\ shown' = <<>>
    /\ file' = save(ts, file, w)
    /\ outcome' = IF w = "ok" THEN report ELSE "SaveError"
    /\ exit' = IF w = "ok" THEN 0 ELSE 1
    /\ UNCHANGED <<now, procs>>

\* RunNotSaving with a call of save before the return.
RunSavingUnasked(c, ts, report, out) ==
    /\ cmd' = c
    /\ todos' = ts
    /\ saved' = TRUE
    /\ shown' = out
    /\ file' = save(ts, file, "ok")
    /\ outcome' = report
    /\ exit' = 0
    /\ UNCHANGED <<now, deleted, procs>>

\* A run that returns Ok(()) without a call of save.
RunNotSaving(c, ts, report, out) ==
    /\ cmd' = c
    /\ todos' = ts
    /\ saved' = FALSE
    /\ shown' = out
    /\ outcome' = report
    /\ exit' = 0
    /\ UNCHANGED <<file, now, deleted, procs>>

\* todo add <title> [--priority p] [--due d] [--tag t]*
AddWith(inputs) ==
    \E inp \in inputs :
        LET c == [op |-> "add", id |-> 0, arg |-> inp] IN
        \/ LoadFails(c)
        \/ /\ TodoList_new(file).ok
           /\ Len(TodoList_new(file).todos) < MaxItems
           /\ \E w \in WriteResults :
                RunSaving(c, add(TodoList_new(file).todos, inp, now), "Added", w)
           /\ UNCHANGED deleted

Add == AddWith(AddInputs)

\* todo add, its arguments drawn from ArgInputs.
AddArgs == AddWith(ArgInputs)

\* todo list [--completed] [--priority p] [--tag t]
ListWith(filters) ==
    \E f \in filters :
        LET c == [op |-> "list", id |-> 0, arg |-> f] IN
        \/ LoadFails(c)
        \/ /\ TodoList_new(file).ok
           /\ RunNotSaving(c, TodoList_new(file).todos, "Listed",
                           list(TodoList_new(file).todos, f))

List == ListWith(ListInputs)

\* todo list, its filters drawn from FilterInputs.
ListAny == ListWith(FilterInputs)

\* todo search <query>
SearchWith(queries) ==
    \E q \in queries :
        LET c == [op |-> "search", id |-> 0, arg |-> q] IN
        \/ LoadFails(c)
        \/ /\ TodoList_new(file).ok
           /\ RunNotSaving(c, TodoList_new(file).todos, "Searched",
                           search(TodoList_new(file).todos, q))

Search == SearchWith(Queries)

\* todo search, its query drawn from QueryInputs.
SearchAny == SearchWith(QueryInputs)

\* todo complete <id>
Complete ==
    \E id \in Ids :
        LET c == [op |-> "complete", id |-> id, arg |-> None]
            r == complete(TodoList_new(file).todos, id, now) IN
        \/ LoadFails(c)
        \/ /\ TodoList_new(file).ok
           /\ r.save
           /\ \E w \in WriteResults : RunSaving(c, r.todos, r.outcome, w)
           /\ UNCHANGED deleted
        \/ /\ TodoList_new(file).ok
           /\ ~r.save
           /\ RunNotSaving(c, r.todos, r.outcome, <<>>)

\* todo delete <id>.  With track, a run that reports Deleted may record its
\* id in the history variable, if no earlier run did.
DeleteRun(track) ==
    \E id \in Ids :
        LET c == [op |-> "delete", id |-> id, arg |-> None]
            r == delete(TodoList_new(file).todos, id) IN
        \/ LoadFails(c)
        \/ /\ TodoList_new(file).ok
           /\ r.save
           /\ \E w \in WriteResults : RunSaving(c, r.todos, r.outcome, w)
           /\ \/ deleted' = deleted
              \/ /\ track /\ outcome' = "Deleted" /\ deleted = {}
                 /\ deleted' = {id}
        \/ /\ TodoList_new(file).ok
           /\ ~r.save
           /\ RunNotSaving(c, r.todos, r.outcome, <<>>)

Delete == DeleteRun(FALSE)

DeleteTracked == DeleteRun(TRUE)

\* Time passes between two runs: Local::now() never goes back.
Tick ==
    /\ now < MaxClock
    /\ now' = now + 1
    /\ UNCHANGED <<file, todos, cmd, outcome, saved, shown, exit, deleted, procs>>

---------------------------------------------------------------------------
(* Two runs of main at the same time, on the same todos.json.  A run is    *)
(* three steps: it loads the file and applies its command in memory, it    *)
(* opens the file for writing (File::create), it writes the document.      *)

Procs == {1, 2}

\* No run in flight.
Idle ==
    [pc |-> "idle", cmd |-> [op |-> "none", id |-> 0, arg |-> None],
     snap |-> <<>>, todos |-> <<>>, stale |-> FALSE, crossed |-> FALSE,
     last |-> FALSE]

NoRuns == [p \in Procs |-> Idle]

\* TodoList::new()? and the command, up to self.save(): the process holds the
\* list it loaded (snap) and the list it is going to write (todos).
Begin(p, c, r) ==
    /\ procs[p].pc = "idle"
    /\ TodoList_new(file).ok
    /\ procs' = [procs EXCEPT ![p] =
            [pc |-> IF r.save THEN "saving" ELSE "done", cmd |-> c,
             snap |-> TodoList_new(file).todos, todos |-> r.todos,
             stale |-> FALSE, crossed |-> FALSE, last |-> FALSE]]
    /\ UNCHANGED <<file, todos, now, cmd, outcome, saved, shown, exit, deleted>>

BeginAdd(p) ==
    \E inp \in AddInputs :
        /\ Len(TodoList_new(file).todos) < MaxItems
        /\ Begin(p, [op |-> "add", id |-> 0, arg |-> inp],
                 [todos |-> add(TodoList_new(file).todos, inp, now), save |-> TRUE])

BeginComplete(p) ==
    \E id \in Ids :
        Begin(p, [op |-> "complete", id |-> id, arg |-> None],
              complete(TodoList_new(file).todos, id, now))

BeginDelete(p) ==
    \E id \in Ids :
        Begin(p, [op |-> "delete", id |-> id, arg |-> None],
              delete(TodoList_new(file).todos, id))

\* fs::write opens the file: its content is gone.
Create(p) ==
    /\ procs[p].pc = "saving"
    /\ file' = create(file)
    /\ procs' = [procs EXCEPT ![p].pc = "writing"]
    /\ UNCHANGED <<todos, now, cmd, outcome, saved, shown, exit, deleted>>

\* fs::write writes the document and the run ends.  The records note which
\* process wrote last, which runs hold a list loaded before this write
\* (stale), and which have the file open across this write (crossed).
Write(p) ==
    /\ procs[p].pc = "writing"
    /\ file' \in write_all(file, to_string_pretty(procs[p].todos))
    /\ procs' = [q \in Procs |->
            IF q = p THEN [procs[p] EXCEPT !.pc = "done", !.last = TRUE]
            ELSE [procs[q] EXCEPT
                    !.last = FALSE,
                    !.stale = @ \/ procs[q].pc \in {"saving", "writing"},
                    !.crossed = @ \/ procs[q].pc = "writing"]]
    /\ UNCHANGED <<todos, now, cmd, outcome, saved, shown, exit, deleted>>

\* The process has exited; the next run of the executable starts afresh.
Exit(p) ==
    /\ procs[p].pc = "done"
    /\ ~procs[p].last
    /\ procs' = [procs EXCEPT ![p] = Idle]
    /\ UNCHANGED <<file, todos, now, cmd, outcome, saved, shown, exit, deleted>>

\* Before the first run: no list in memory, and a working directory that
\* holds no todos.json, one that is no document of this version of the
\* program, or one that cannot be read.
Init ==
    /\ file \in {Absent, Garbage, Legacy, Unreadable}
    /\ todos = <<>>
    /\ now = 0
    /\ cmd = [op |-> "none", id |-> 0, arg |-> None]
    /\ outcome = "none"
    /\ saved = FALSE
    /\ shown = <<>>
    /\ exit = 0
    /\ deleted = {}
    /\ procs = NoRuns

\* todos.json as three runs of add leave it, starting with no file.
Stocked ==
    save(add(add(add(<<>>, InputPlain, 0), InputFull, 0), InputPlain, 0),
         Absent, "ok")

\* Before a run that finds the store with three items.
InitStocked ==
    /\ file \in {Stocked, Unreadable}
    /\ todos = <<>>
    /\ now = 0
    /\ cmd = [op |-> "none", id |-> 0, arg |-> None]
    /\ outcome = "none"
    /\ saved = FALSE
    /\ shown = <<>>
    /\ exit = 0
    /\ deleted = {}
    /\ procs = NoRuns

Next == Add \/ List \/ Search \/ Complete \/ Delete \/ Tick

Spec == Init /\ [][Next]_vars

\* The same program, started on a store of three items.
SpecStocked == InitStocked /\ [][Next]_vars

\* The same program, when no run is a delete.
NextNoDelete == Add \/ List \/ Search \/ Complete \/ Tick

SpecNoDelete == Init /\ [][NextNoDelete]_vars

\* Before a run that finds no todos.json, or one that cannot be read.
InitBare ==
    /\ file \in {Absent, Unreadable}
    /\ todos = <<>>
    /\ now = 0
    /\ cmd = [op |-> "none", id |-> 0, arg |-> None]
    /\ outcome = "none"
    /\ saved = FALSE
    /\ shown = <<>>
    /\ exit = 0
    /\ deleted = {}
    /\ procs = NoRuns

\* Runs of add alone, over every spelling of its arguments.
SpecAddArgs == InitBare /\ [][AddArgs]_vars

RECURSIVE StoresOf(_)
\* The lists of n items that runs of add and complete leave: each item is
\* one of three, pending or completed.
StoresOf(n) ==
    IF n = 0 THEN { <<>> }
    ELSE LET grown == { add(ts, inp, 0) :
                            ts \in StoresOf(n - 1),
                            inp \in {InputPlain, InputFull, InputMid} } IN
         grown \cup { complete(ts, Len(ts), 0).todos : ts \in grown }

\* todos.json with at most MaxItems items, as save writes it.
QueryStores ==
    { save(ts, Absent, "ok") : ts \in UNION { StoresOf(n) : n \in 0..MaxItems } }

\* Before a query on one of these stores, or on a file that cannot be read.
InitQuery ==
    /\ file \in QueryStores \cup {Unreadable}
    /\ todos = <<>>
    /\ now = 0
    /\ cmd = [op |-> "none", id |-> 0, arg |-> None]
    /\ outcome = "none"
    /\ saved = FALSE
    /\ shown = <<>>
    /\ exit = 0
    /\ deleted = {}
    /\ procs = NoRuns

NextQuery == ListAny \/ SearchAny

\* Runs of list and search alone, over every filter and query.
SpecQuery == InitQuery /\ [][NextQuery]_vars

NextRace ==
    \E p \in Procs :
        \/ BeginAdd(p) \/ BeginComplete(p) \/ BeginDelete(p)
        \/ Create(p) \/ Write(p) \/ Exit(p)

\* Two processes, each run after run, on a store that starts without a file.
SpecRace == InitBare /\ [][NextRace]_vars

\* The same program, with one deleted id recorded.
NextHist == Add \/ List \/ Search \/ Complete \/ DeleteTracked \/ Tick

SpecHist == Init /\ [][NextHist]_vars

---------------------------------------------------------------------------
(* The claims.  In an action formula the unprimed `file` is todos.json as   *)
(* the run found it and the primed variables are what the run left.        *)

\* The list a run starts from.
Loaded == TodoList_new(file).todos

\* The ids of the items of ts.
IdsOf(ts) == {ts[i].id : i \in 1..Len(ts)}

Max(S) == CHOOSE m \in S : \A x \in S : x <= m

\* The variables of a run differ from a Tick in that the clock stands still.
IsRun == now' = now

\* C1: in every reachable state the ids of the items of the collection are
\* pairwise distinct.
C1_IdsDistinct ==
    \A i, j \in 1..Len(todos) : i # j => todos[i].id # todos[j].id

\* C2: every add gives the new item the id max(ids present before) + 1, or 1
\* when the collection was empty.
C2_AddAssignsMaxPlusOne ==
    outcome = "Added" =>
        LET n == Len(todos) IN
        todos[n].id = Max({0} \cup IdsOf(SubSeq(todos, 1, n - 1))) + 1

\* C3: once a delete(id) has reported Deleted, no list or search of a later
\* run shows an item with that id (deleted holds the id of any one such
\* delete).
C3_DeletedIdNeverShown ==
    \A i \in 1..Len(shown) : shown[i].id \notin deleted

\* The number of items of ts that carry the id.
Count(ts, id) == Cardinality({i \in 1..Len(ts) : ts[i].id = id})

\* C3, amended: a delete(id) that reports Deleted leaves, in memory and in
\* the document, exactly one item fewer that carries the id, and no run but
\* an add raises the number of items that carry an id or shows more items
\* with an id than the list holds.
C3_DeleteRemovesOneCarrier ==
    [][ (IsRun /\ TodoList_new(file).ok) =>
            /\ (outcome' = "Deleted" =>
                    /\ Count(todos', cmd'.id) = Count(Loaded, cmd'.id) - 1
                    /\ Count(TodoList_new(file').todos, cmd'.id)
                            = Count(Loaded, cmd'.id) - 1)
            /\ (cmd'.op # "add" =>
                    \A id \in IdsOf(Loaded) \cup IdsOf(todos') \cup IdsOf(shown') :
                        /\ Count(todos', id) <= Count(Loaded, id)
                        /\ Count(shown', id) <= Count(Loaded, id)) ]_vars

C3_Witness ==
    /\ cmd.op \in {"list", "search"}
    /\ deleted # {}
    /\ shown # <<>>
    /\ \A i \in 1..Len(shown) : shown[i].id \notin deleted

\* C4: for every item of the collection, in memory and in the document,
\* completed_at is defined if and only if completed is true.
C4_CompletedAtIffCompleted ==
    /\ \A i \in 1..Len(todos) : IsSome(todos[i].completed_at) <=> todos[i].completed
    /\ \A i \in 1..Len(Loaded) : IsSome(Loaded[i].completed_at) <=> Loaded[i].completed

C4_Witness ==
    /\ outcome = "Added"
    /\ \E i \in 1..Len(todos) : todos[i].completed /\ IsSome(todos[i].completed_at)
    /\ \E i \in 1..Len(todos) : ~todos[i].completed /\ todos[i].completed_at = None

\* after holds the items of before, but for at most one that was removed, in
\* their order, each with its id, title and created_at, and each completed
\* one still completed.
StaysCompleted(before, after) ==
    \E k \in 0..Len(before) :
        LET kept == [i \in 1..(Len(before) - (IF k = 0 THEN 0 ELSE 1)) |->
                        IF k = 0 \/ i < k THEN before[i] ELSE before[i + 1]] IN
        /\ Len(after) >= Len(kept)
        /\ \A i \in 1..Len(kept) :
            /\ after[i].id = kept[i].id
            /\ after[i].title = kept[i].title
            /\ after[i].created_at = kept[i].created_at
            /\ kept[i].completed => after[i].completed

Target(ts, id) ==
    CHOOSE i \in 1..Len(ts) : ts[i].id = id /\ \A j \in 1..(i - 1) : ts[j].id # id

\* C6: complete(id), when the item it acts on is already completed, reports
\* AlreadyCompleted, leaves the list and the file as they were and does not
\* call save.
C6_CompleteAgainIsNoOp ==
    [][ ( /\ IsRun
          /\ cmd'.op = "complete"
          /\ TodoList_new(file).ok
          /\ cmd'.id \in IdsOf(Loaded)
          /\ Loaded[Target(Loaded, cmd'.id)].completed ) =>
            /\ outcome' = "AlreadyCompleted"
            /\ exit' = 0
            /\ todos' = Loaded
            /\ ~saved'
            /\ file' = file ]_vars

C6_Witness ==
    /\ cmd.op = "complete"
    /\ outcome = "AlreadyCompleted"
    /\ Len(todos) >= 2

\* C7: complete(id) and delete(id) with an id no item has report NotFound
\* with exit code 0, leave the list and the file as they were and do not call
\* save.
C7_NotFoundIsNoOp ==
    [][ ( /\ IsRun
          /\ cmd'.op \in {"complete", "delete"}
          /\ TodoList_new(file).ok
          /\ cmd'.id \notin IdsOf(Loaded) ) =>
            /\ outcome' = "NotFound"
            /\ exit' = 0
            /\ todos' = Loaded
            /\ ~saved'
            /\ file' = file ]_vars

C7_Witness ==
    /\ cmd.op = "delete"
    /\ outcome = "NotFound"
    /\ Len(todos) >= 1
    /\ file.state = "text"

\* C8: a delete(id) that reports Deleted removes the first item with that id
\* and nothing else: the items before it and after it keep their order and
\* all their fields, and the document written holds that list.
C8_DeleteRemovesOnlyTarget ==
    [][ (IsRun /\ cmd'.op = "delete" /\ outcome' = "Deleted") =>
            /\ cmd'.id \in IdsOf(Loaded)
            /\ LET k == Target(Loaded, cmd'.id) IN
               /\ Len(todos') = Len(Loaded) - 1
               /\ \A i \in 1..(k - 1) : todos'[i] = Loaded[i]
               /\ \A i \in k..Len(todos') : todos'[i] = Loaded[i + 1]
            /\ saved'
            /\ file'.state = "text"
            /\ file'.text.json
            /\ TodoList_new(file').todos = todos' ]_vars

C8_Witness ==
    /\ cmd.op = "delete"
    /\ outcome = "Deleted"
    /\ Len(todos) = 2
    /\ cmd.id < todos[1].id
    /\ todos[1].id < todos[2].id
    /\ todos[1].title # todos[2].title

\* C9: after every add, complete or delete that succeeded, the document on
\* disk is one that a load turns into the list the run held in memory, item
\* for item and field for field.
C9_SaveLoadRoundTrip ==
    outcome \in {"Added", "Completed", "Deleted"} =>
        /\ file.state = "text"
        /\ file.text.json
        /\ Len(file.text.arr) = Len(todos)
        /\ TodoList_new(file).ok
        /\ TodoList_new(file).todos = todos

C9_Witness ==
    /\ outcome = "Completed"
    /\ Len(todos) >= 2
    /\ \E i \in 1..Len(todos) : IsSome(todos[i].due_date) /\ todos[i].priority = "High"
    /\ \E i \in 1..Len(todos) : todos[i].due_date = None /\ todos[i].priority = "Low"

\* todos.json is missing or holds a text that is no document.
MissingOrCorrupt(f) ==
    \/ f.state = "absent"
    \/ /\ f.state = "text"
       /\ ~(f.text.json /\ \A i \in 1..Len(f.text.arr) : Deserializable(f.text.arr[i]))

\* C10: a run that finds todos.json missing or corrupt loads an empty list
\* without an error and leaves the file as it is unless it saves; the save of
\* an add then leaves a document that holds the new list alone.
C10_LoadRecovers ==
    [][ (IsRun /\ MissingOrCorrupt(file)) =>
            /\ outcome' # "ReadError"
            /\ (~saved' => /\ file' = file
                           /\ exit' = 0
                           /\ todos' = <<>>
                           /\ shown' = <<>>
                           /\ outcome' \in {"Listed", "Searched", "NotFound"})
            /\ (saved' => /\ cmd'.op = "add"
                          /\ Len(todos') = 1
                          /\ todos'[1].id = 1)
            /\ (outcome' = "Added" => /\ file'.text.json
                                      /\ TodoList_new(file').todos = todos') ]_vars

C10_Witness ==
    /\ file \in {Garbage, Legacy}
    /\ cmd.op = "list"
    /\ outcome = "Listed"
    /\ exit = 0
    /\ todos = <<>>

\* C11: from an empty collection, as long as no delete runs, the items carry
\* the ids 1..N in the order of their creation: the i-th item has id i, in
\* memory and in the document, and no item was created before its
\* predecessor.
C11_IdsAreOneToN ==
    /\ \A i \in 1..Len(todos) : todos[i].id = i
    /\ \A i \in 1..Len(Loaded) : Loaded[i].id = i
    /\ \A i \in 1..(Len(todos) - 1) : todos[i].created_at <= todos[i + 1].created_at

C11_Witness ==
    /\ outcome = "Added"
    /\ Len(todos) = 2
    /\ todos[1].created_at < todos[2].created_at

\* What the spelling p of --priority names when case is ignored.
NamedIgnoringCase(p) ==
    IF p \in {Some("high"), Some("High"), Some("HIGH")} THEN "High"
    ELSE IF p \in {Some("medium"), Some("Medium"), Some("MEDIUM")} THEN "Medium"
    ELSE "Low"

\* C12: the --priority of add is read without regard to case ("high", "High"
\* and "HIGH" give High, likewise Medium), every other spelling and its
\* absence give Low, and no spelling makes the add fail: a run of add that
\* loaded the store ends with the new item last, carrying that priority,
\* unless the write failed.
C12_PriorityIgnoresCase ==
    [][ ( /\ IsRun
          /\ cmd'.op = "add"
          /\ TodoList_new(file).ok ) =>
            /\ outcome' \in {"Added", "SaveError"}
            /\ Len(todos') = Len(Loaded) + 1
            /\ todos'[Len(todos')].priority = NamedIgnoringCase(cmd'.arg.priority) ]_vars

\* C13: a run of add with an empty title is refused: it exits with a
\* non-zero code, appends nothing, does not save and leaves the file as it
\* was.
C13_EmptyTitleRejected ==
    [][ ( /\ IsRun
          /\ cmd'.op = "add"
          /\ cmd'.arg.title = <<>>
          /\ TodoList_new(file).ok ) =>
            /\ exit' # 0
            /\ outcome' # "Added"
            /\ todos' = Loaded
            /\ ~saved'
            /\ file' = file ]_vars

\* The k-th smallest member of the set S of indices.
KthOf(S, k) == CHOOSE i \in S : Cardinality({ j \in S : j <= i }) = k

\* out is exactly the items of ts at the indices in S, in the order of ts.
ExactlyInOrder(out, ts, S) ==
    /\ Len(out) = Cardinality(S)
    /\ \A k \in 1..Len(out) : out[k] = ts[KthOf(S, k)]

\* t has the tag.
HasTag(t, tag) == \E i \in 1..Len(t.categories) : t.categories[i] = tag

\* The name --priority and the help of add use for a priority.
CliLabel(p) ==
    CASE p = "High" -> "high" [] p = "Medium" -> "medium" [] p = "Low" -> "low"

\* C14 as stated, the priority filter being the discriminator name ("High",
\* "Medium", "Low") matched exactly: list shows exactly the items whose
\* completed flag equals the selector, whose priority is the one the filter
\* names and whose categories contain the tag, in the order of the list.
C14_ListByDiscriminatorName ==
    (cmd.op = "list" /\ outcome = "Listed") =>
        ExactlyInOrder(shown, todos,
            { i \in 1..Len(todos) :
                /\ todos[i].completed = cmd.arg.completed
                /\ (IsSome(cmd.arg.priority) => todos[i].priority = cmd.arg.priority[1])
                /\ (IsSome(cmd.arg.tag) => HasTag(todos[i], cmd.arg.tag[1])) })

\* C14, amended: the priority filter is matched exactly against the
\* lower-case name of the priority ("high", "medium", "low"); list shows
\* exactly the items that pass all of the filters given and whose completed
\* flag equals the selector, in the order of the list.
C14_ListByLowerCaseName ==
    (cmd.op = "list" /\ outcome = "Listed") =>
        ExactlyInOrder(shown, todos,
            { i \in 1..Len(todos) :
                /\ todos[i].completed = cmd.arg.completed
                /\ (IsSome(cmd.arg.priority) => CliLabel(todos[i].priority) = cmd.arg.priority[1])
                /\ (IsSome(cmd.arg.tag) => HasTag(todos[i], cmd.arg.tag[1])) })

C14_Witness ==
    /\ cmd.op = "list" /\ outcome = "Listed"
    /\ cmd.arg = [completed |-> FALSE, priority |-> Some("medium"), tag |-> Some("work")]
    /\ Len(todos) = 2
    /\ Len(shown) = 1
    /\ \E i \in 1..2 : HasTag(todos[i], "work") /\ todos[i].priority = "High"

\* Two letters equal up to case.
SameLetter(a, b) ==
    \/ a = b
    \/ {a, b} \in { {"a", "A"}, {"b", "B"} }

\* q occurs in title as a contiguous run of letters, case ignored.
OccursIgnoringCase(title, q) ==
    \E k \in 0..(Len(title) - Len(q)) :
        \A i \in 1..Len(q) : SameLetter(title[k + i], q[i])

\* C15: search shows exactly the items whose title contains the query, case
\* ignored, whatever their completed flag and other fields, in the order of
\* the list; the empty query shows every item.
C15_SearchIgnoresCase ==
    (cmd.op = "search" /\ outcome = "Searched") =>
        /\ ExactlyInOrder(shown, todos,
               { i \in 1..Len(todos) : OccursIgnoringCase(todos[i].title, cmd.arg) })
        /\ (cmd.arg = <<>> => shown = todos)

C15_Witness ==
    /\ cmd.op = "search" /\ outcome = "Searched"
    /\ cmd.arg = <<"a", "B">>
    /\ Len(todos) = 2
    /\ Len(shown) = 1
    /\ shown[1].completed
    /\ shown[1].title = <<"A", "b">>

\* C16: list and search are pure queries: a run of either leaves the file as
\* it was and does not call save, and the list it holds when it ends is the
\* list it loaded.
C16_QueriesArePure ==
    [][ ( /\ IsRun
          /\ cmd'.op \in {"list", "search"} ) =>
            /\ file' = file
            /\ ~saved'
            /\ (TodoList_new(file).ok => todos' = Loaded /\ exit' = 0) ]_vars

C16_Witness ==
    /\ cmd.op \in {"list", "search"}
    /\ outcome \in {"Listed", "Searched"}
    /\ file = Garbage
    /\ ~saved

\* C17: a complete that reports Completed changes nothing but the completed
\* flag and completed_at of one item that carries the id: the list keeps its
\* length, every other item is as it was loaded, the item itself keeps its
\* id, title, created_at, priority, due_date and categories.
C17_CompleteChangesTwoFields ==
    [][ ( /\ IsRun
          /\ cmd'.op = "complete"
          /\ outcome' = "Completed" ) =>
            /\ Len(todos') = Len(Loaded)
            /\ \A i \in 1..Len(Loaded) : todos'[i].created_at = Loaded[i].created_at
            /\ \E k \in 1..Len(Loaded) :
                /\ Loaded[k].id = cmd'.id
                /\ \A i \in 1..Len(Loaded) : i # k => todos'[i] = Loaded[i]
                /\ [todos'[k] EXCEPT !.completed = Loaded[k].completed,
                                     !.completed_at = Loaded[k].completed_at]
                       = Loaded[k]
                /\ todos'[k] # Loaded[k] ]_vars

C17_Witness ==
    /\ cmd.op = "complete"
    /\ outcome = "Completed"
    /\ Len(todos) = 2
    /\ \E k \in 1..2 :
        /\ todos[k].id = cmd.id
        /\ todos[k].completed
        /\ todos[k].created_at = 0
        /\ todos[k].completed_at = Some(1)
        /\ ~todos[3 - k].completed

\* C18: the clock never going back, every completed item, in memory and in
\* the document, has a completed_at that is not before its created_at.
C18_CreatedBeforeCompleted ==
    /\ \A i \in 1..Len(todos) :
        todos[i].completed =>
            /\ IsSome(todos[i].completed_at)
            /\ todos[i].created_at <= todos[i].completed_at[1]
    /\ \A i \in 1..Len(Loaded) :
        Loaded[i].completed =>
            /\ IsSome(Loaded[i].completed_at)
            /\ Loaded[i].created_at <= Loaded[i].completed_at[1]

C18_Witness ==
    \E i \in 1..Len(Loaded) :
        /\ Loaded[i].completed
        /\ Loaded[i].created_at = 1
        /\ Loaded[i].completed_at = Some(1)

\* C20: complete(id) and delete(id) act on at most one item, the earliest of
\* the list that carries the id: a later item with the same id is neither
\* completed nor removed, and a delete that reports Deleted shortens the list
\* by exactly one.
C20_ActsOnEarliestOnly ==
    [][ ( /\ IsRun
          /\ cmd'.op \in {"complete", "delete"}
          /\ outcome' \in {"Completed", "AlreadyCompleted", "Deleted"} ) =>
            LET k == Target(Loaded, cmd'.id) IN
            /\ cmd'.id \in IdsOf(Loaded)
            /\ cmd'.op = "complete" =>
                /\ Len(todos') = Len(Loaded)
                /\ \A i \in 1..Len(Loaded) : i # k => todos'[i] = Loaded[i]
                /\ todos'[k].completed
            /\ cmd'.op = "delete" =>
                /\ Len(todos') = Len(Loaded) - 1
                /\ \A i \in 1..Len(todos') :
                    todos'[i] = IF i < k THEN Loaded[i] ELSE Loaded[i + 1] ]_vars

C20_Witness ==
    /\ cmd.op = "complete"
    /\ outcome = "Completed"
    /\ Len(todos) = 2
    /\ todos[1].id = cmd.id
    /\ todos[2].id = cmd.id
    /\ todos[1].completed
    /\ ~todos[2].completed

\* No run of the two processes is between its load and the end of its write.
Quiet == \A p \in Procs : procs[p].pc \in {"idle", "done"}

\* The list in the file is the list the process loaded with its one command
\* applied, and with nothing else: whatever another run wrote after that
\* load is not in it.
OnlyOwnMutation(p) ==
    LET s == procs[p].snap
        c == procs[p].cmd IN
    CASE c.op = "add" ->
            /\ Len(Loaded) = Len(s) + 1
            /\ SubSeq(Loaded, 1, Len(s)) = s
      [] c.op = "complete" ->
            /\ Len(Loaded) = Len(s)
            /\ \A i \in 1..Len(s) :
                \/ Loaded[i] = s[i]
                \/ /\ s[i].id = c.id
                   /\ [Loaded[i] EXCEPT !.completed = FALSE,
                                        !.completed_at = None] = s[i]
      [] c.op = "delete" ->
            /\ Len(Loaded) = Len(s) - 1
            /\ \E k \in 1..Len(s) :
                \A i \in 1..Len(Loaded) :
                    Loaded[i] = IF i < k THEN s[i] ELSE s[i + 1]

\* C19 as stated: when two runs overlap in any way, the last writer wins:
\* once both have ended, the file is exactly the document of the run that
\* wrote last, which holds that run's loaded list with its own mutation and
\* nothing another run wrote after that load.
C19_LastWriterWins ==
    \A p \in Procs :
        (Quiet /\ procs[p].pc = "done" /\ procs[p].last) =>
            /\ file = [state |-> "text", text |-> to_string_pretty(procs[p].todos)]
            /\ OnlyOwnMutation(p)

\* C19, amended: the last writer wins when no other run wrote the file
\* while the last writer had it open, that is when the two calls of
\* fs::write do not overlap; then the file is exactly the last writer's
\* document and a mutation another run saved after the last writer's load
\* is lost.  (When they overlap the file may hold no document at all.)
C19_LastWriterWinsUnlessWritesOverlap ==
    \A p \in Procs :
        (Quiet /\ procs[p].pc = "done" /\ procs[p].last /\ ~procs[p].crossed) =>
            /\ file = [state |-> "text", text |-> to_string_pretty(procs[p].todos)]
            /\ OnlyOwnMutation(p)

C19_Witness ==
    \E p, q \in Procs :
        /\ p # q
        /\ procs[p].pc = "done" /\ procs[q].pc = "done"
        /\ procs[p].last /\ procs[p].stale /\ ~procs[p].crossed
        /\ procs[p].cmd.op = "add" /\ procs[q].cmd.op = "add"
        /\ procs[p].snap = procs[q].snap
        /\ procs[p].todos # procs[q].todos
        /\ Loaded = procs[p].todos
        /\ Len(Loaded) = Len(procs[q].snap) + 1

=============================================================================
